---- MODULE Spec2Model ----
(***************************************************************************)
(* The proxier of jaredallard/localizer: the service-event classifier      *)
(* (internal/proxier/handlers.go), the orchestrator's Start and List       *)
(* (internal/proxier/proxy.go), and the port-forward worker's table they   *)
(* feed and read.                                                          *)
(***************************************************************************)
EXTENDS Integers, Sequences, FiniteSets, TLC

\* ------------------------------------------------------------------ bounds

\* Notifications the informer raises in one run.
MaxNotifications == 2
\* Declared ports of one service.
MaxPorts == 2
\* Addresses of one resolved Endpoints object, over all its subsets.
MaxAddresses == 2

\* ------------------------------------------------------------ input domains

\* (name, namespace) of the services of the cluster: one ordinary name, and the
\* reserved name in two namespaces.
ServiceKeys ==
  {<<"web", "default">>, <<"kubernetes", "default">>, <<"kubernetes", "ns">>}
\* s.Service.Spec.ClusterIP: an address, the headless marker, or not set.
ClusterIPs == {"10.0.0.1", "None", ""}
PortNumbers == {80, 443}
PodNames == {"pod-0", "pod-1"}

SeqsUpTo(S, n) == UNION {[1..k -> S] : k \in 0..n}

\* corev1.Service, the fields serviceProcessor reads.
\* s.Service.Spec.Ports: a service declares a port number once.
PortLists ==
  {ports \in SeqsUpTo(PortNumbers, MaxPorts) :
     \A i, j \in 1..Len(ports) : ports[i] = ports[j] => i = j}

Services ==
  {[Name |-> k[1], Namespace |-> k[2], ClusterIP |-> ip, Ports |-> ports] :
     k \in ServiceKeys, ip \in ClusterIPs, ports \in PortLists}

\* e.TargetRef: nil, a Pod, or an object of another kind.
NilRef == [nil |-> TRUE]
TargetRefs(ns) ==
  {NilRef}
    \cup {[Kind |-> "Pod", Name |-> n, Namespace |-> ns] : n \in PodNames}
    \cup {[Kind |-> "Node", Name |-> "node-a", Namespace |-> ns]}

\* The sequences of subsets, each with one address or more, of n addresses at most.
RECURSIVE SubsetsOfTotal(_, _)
SubsetsOfTotal(R, n) ==
  {<<>>} \cup
    UNION {{<<first>> \o rest : first \in [1..k -> R], rest \in SubsetsOfTotal(R, n - k)} :
             k \in 1..n}

\* endpoints.Subsets: each subset is its Addresses, each address its TargetRef.
EndpointSubsets(ns) == SubsetsOfTotal(TargetRefs(ns), MaxAddresses)

\* --------------------------------------------------------------- constants

EventAdded == "added"
EventDeleted == "deleted"
ServiceTypeStandard == ""
ServiceTypeStatefulset == "statefulset"
ReservedName == "kubernetes"
HeadlessIP == "None"
ErrNotRunning == "proxier not running"

\* The nil *PodInfo of a request for an ordinary service.
NoEndpoint == [nil |-> TRUE]
\* The zero PortForwardStatus make() fills connStatuses with.
ZeroStatus == ""
\* The status a new table entry starts with.
StatusPending == "pending"

NoEvent == [none |-> TRUE]

\* Variant: two goroutines consume the event channel.
ProcessorsTwo == {"sp1", "sp2"}

\* The goroutines CreateHandlers starts on serviceProcessor.
Processors == {"sp1"}

\* ----------------------------------------------------------------- state

VARIABLES
  startPc,      \* Proxier.Start: where the call is
  worker,       \* p.worker: "nil" or "worker"
  tableBuilt,   \* the worker and its table were constructed
  portForwards, \* p.worker.portForwards: ServiceInfo -> sequence of entries
  ctxDone,      \* ctx was cancelled
  cState,       \* the port-forward worker's loop: "none", "running", "stopped"
  wState,       \* the informer: "off", "running", "addFunc", "deleteFunc", "stopped"
  nObserved,    \* notifications the informer has raised
  spPc,         \* serviceProcessor: "none", "select", "resolve", "send", "next", "exited"
  cur,          \* the ServiceEvent being processed
  curSubsets,   \* the subsets resolved for it
  curErr,       \* err of the endpoint lookup: "" is nil
  todo,         \* requests of the event still to send
  emitted,      \* requests of the event already handed over
  doneChan,     \* "open" or "closed"
  handLog,      \* the notification number of every request handed over, in order
  livePods,     \* pod addresses the cluster's Endpoints object of the service holds
  listPc,       \* Proxier.List: where the call is
  listVisited,  \* map keys the range has produced
  listServ,     \* serv
  listConn,     \* connStatuses
  listM,        \* length of the ranged entry list
  listI,        \* i (counted from 1)
  listStatuses, \* statuses
  listErr,      \* the error returned
  listAbsent    \* identities with no entry at the call and no create since

startVars == <<startPc, worker, tableBuilt>>
pipeVars == <<wState, nObserved, spPc, cur, curSubsets, curErr, todo, emitted, doneChan>>
listVars == <<listPc, listVisited, listServ, listConn, listM, listI,
              listStatuses, listErr, listAbsent>>
vars == <<startPc, worker, tableBuilt, portForwards, ctxDone, cState, wState,
          nObserved, spPc, cur, curSubsets, curErr, todo, emitted, doneChan, handLog,
          livePods, listPc, listVisited, listServ, listConn, listM, listI,
          listStatuses, listErr, listAbsent>>

EmptyTable == [k \in {} |-> <<>>]

Init ==
  /\ startPc = "idle"
  /\ worker = "nil"
  /\ tableBuilt = FALSE
  /\ portForwards = EmptyTable
  /\ ctxDone = FALSE
  /\ cState = "none"
  /\ wState = "off"
  /\ nObserved = 0
  /\ spPc = [p \in Processors |-> "none"]
  /\ cur = [p \in Processors |-> NoEvent]
  /\ curSubsets = [p \in Processors |-> <<>>]
  /\ curErr = [p \in Processors |-> ""]
  /\ todo = [p \in Processors |-> <<>>]
  /\ emitted = [p \in Processors |-> <<>>]
  /\ doneChan = "open"
  /\ handLog = <<>>
  /\ livePods = 0
  /\ listPc = "idle"
  /\ listVisited = {}
  /\ listServ = NoEvent
  /\ listConn = <<>>
  /\ listM = 0
  /\ listI = 0
  /\ listStatuses = <<>>
  /\ listErr = ""
  /\ listAbsent = {}

\* ------------------------------------------------------------ the classifier

\* Variant: a service with no ClusterIP set is taken as headless too.
InfoUnsetHeadless(svc) ==
  [Name |-> svc.Name, Namespace |-> svc.Namespace,
   Type |-> IF svc.ClusterIP \in {HeadlessIP, ""} THEN ServiceTypeStatefulset ELSE ""]

\* ServiceInfo of an event's service: Type stays "" unless the service is headless.
Info(svc) ==
  [Name |-> svc.Name, Namespace |-> svc.Namespace,
   Type |-> IF svc.ClusterIP = HeadlessIP THEN ServiceTypeStatefulset ELSE ""]

\* Variant: the reserved name is skipped in the default namespace only.
IsReservedInDefault(info) == info.Name = ReservedName /\ info.Namespace = "default"

IsReserved(info) == info.Name = ReservedName

\* The ServiceInfo values of the services of the cluster.
Identities == {Info(svc) : svc \in Services}

\* ports[i] = int(p.Port): int32 widened to int, the value is kept.
PortsOf(svc) == [i \in 1..Len(svc.Ports) |-> svc.Ports[i]]

\* fmt.Sprintf("%s.%s" + suffix, a, b)
Sprintf(a, b, suffix) == a \o "." \o b \o suffix

CreateRequest(info, ports, endpoint, hostnames) ==
  [kind |-> "create", Service |-> info, Ports |-> ports, Endpoint |-> endpoint,
   Hostnames |-> hostnames]

\* Variant: the delete request carries the identity as first built, Type "".
DeleteRequestUntyped(info) == [kind |-> "delete", Service |-> [info EXCEPT !.Type = ""]]

DeleteRequest(info) == [kind |-> "delete", Service |-> info]

\* Variant: the second alias is qualified the wrong way round.
StandardHostnamesSwapped(info) ==
  << info.Name,
     Sprintf(info.Namespace, info.Name, ""),
     Sprintf(info.Name, info.Namespace, ".svc"),
     Sprintf(info.Name, info.Namespace, ".svc.cluster"),
     Sprintf(info.Name, info.Namespace, ".svc.cluster.local") >>

StandardHostnames(info) ==
  << info.Name,
     Sprintf(info.Name, info.Namespace, ""),
     Sprintf(info.Name, info.Namespace, ".svc"),
     Sprintf(info.Name, info.Namespace, ".svc.cluster"),
     Sprintf(info.Name, info.Namespace, ".svc.cluster.local") >>

StandardRequests(info, ports) ==
  << CreateRequest(info, ports, NoEndpoint, StandardHostnames(info)) >>

\* Variant: the aliases of a pod are those of its service.
PodHostnamesOfService(info, ref) ==
  << info.Name,
     Sprintf(info.Name, info.Namespace, ""),
     Sprintf(info.Name, info.Namespace, ".svc"),
     Sprintf(info.Name, info.Namespace, ".svc.cluster"),
     Sprintf(info.Name, info.Namespace, ".svc.cluster.local") >>

\* name := fmt.Sprintf("%s.%s", e.TargetRef.Name, info.Name)
PodHostnames(info, ref) ==
  LET name == Sprintf(ref.Name, info.Name, "")
  IN  << info.Name,
         Sprintf(name, info.Namespace, ""),
         Sprintf(name, info.Namespace, ".svc"),
         Sprintf(name, info.Namespace, ".svc.cluster"),
         Sprintf(name, info.Namespace, ".svc.cluster.local") >>

PodInfo(ref) == [Name |-> ref.Name, Namespace |-> ref.Namespace]

\* The addresses of all subsets, in the order the two loops visit them.
RECURSIVE Addresses(_)
Addresses(subsets) ==
  IF subsets = <<>> THEN <<>> ELSE Head(subsets) \o Addresses(Tail(subsets))

\* Variant: only the addresses with no TargetRef are skipped.
IsNonNilRef(ref) == ref # NilRef

\* An address the inner loop does not skip.
IsPodRef(ref) == ref # NilRef /\ ref.Kind = "Pod"

RECURSIVE MapRequests(_, _, _)
MapRequests(info, ports, refs) ==
  IF refs = <<>> THEN <<>>
  ELSE << CreateRequest(info, ports, PodInfo(Head(refs)), PodHostnames(info, Head(refs))) >>
         \o MapRequests(info, ports, Tail(refs))

\* The requests the statefulset branch sends for the resolved subsets.
FanOut(info, ports, subsets) ==
  MapRequests(info, ports, SelectSeq(Addresses(subsets), IsPodRef))

\* Variant: a headless service is deleted with no request.
DeletedRequestsStandardOnly(info) ==
  IF info.Type = ServiceTypeStatefulset THEN <<>> ELSE << DeleteRequest(info) >>

DeletedRequests(info) == << DeleteRequest(info) >>

\* Variant: the requests are queued and the loop body ends at once.
SendAllQueued(reqs) == [pc |-> "next", todo |-> reqs]

\* The goroutine sends the requests one by one, then ends the loop body.
SendAll(reqs) == [pc |-> IF reqs = <<>> THEN "next" ELSE "send", todo |-> reqs]

\* What the loop body does with an event before any blocking call:
\* the requests to send and where the goroutine goes next.
Classify(ev) ==
  LET info == Info(ev.Service) IN
  IF IsReserved(info) THEN SendAll(<<>>)
  ELSE IF ev.EventType = EventAdded THEN
    IF info.Type = ServiceTypeStandard
      THEN SendAll(StandardRequests(info, PortsOf(ev.Service)))
    ELSE IF info.Type = ServiceTypeStatefulset
      THEN [pc |-> "resolve", todo |-> <<>>]
    ELSE SendAll(<<>>)
  ELSE IF ev.EventType = EventDeleted
    THEN SendAll(DeletedRequests(info))
  ELSE SendAll(<<>>)

\* case s := <-event: the rendezvous with the informer's handler blocked in
\* serviceChan <- ServiceEvent{...}.
Receive(p) ==
  /\ spPc[p] = "select"
  /\ wState \in {"addFunc", "deleteFunc"}
  /\ \E svc \in Services :
       LET ev == [EventType |-> IF wState = "addFunc" THEN EventAdded ELSE EventDeleted,
                  Service |-> svc, seq |-> nObserved]
           c == Classify(ev)
       IN  /\ cur' = [cur EXCEPT ![p] = ev]
           /\ todo' = [todo EXCEPT ![p] = c.todo]
           /\ spPc' = [spPc EXCEPT ![p] = c.pc]
  /\ emitted' = [emitted EXCEPT ![p] = <<>>]
  /\ curSubsets' = [curSubsets EXCEPT ![p] = <<>>]
  /\ curErr' = [curErr EXCEPT ![p] = ""]
  /\ wState' = "running"
  /\ UNCHANGED <<startVars, portForwards, ctxDone, cState, nObserved, doneChan,
                 handLog, livePods, listVars>>

\* Variant: a failed lookup ends the goroutine.
ResolveFailsReturns(p) ==
  /\ spPc[p] = "resolve"
  /\ curErr' = [curErr EXCEPT ![p] = "error"]
  /\ spPc' = [spPc EXCEPT ![p] = "exited"]
  /\ UNCHANGED <<startVars, portForwards, ctxDone, cState, wState, nObserved, cur,
                 curSubsets, todo, emitted, doneChan, handLog, livePods, listVars>>

\* k.CoreV1().Endpoints(info.Namespace).Get(...) failed: continue.
ResolveFails(p) ==
  /\ spPc[p] = "resolve"
  /\ curErr' = [curErr EXCEPT ![p] = "error"]
  /\ spPc' = [spPc EXCEPT ![p] = "next"]
  /\ UNCHANGED <<startVars, portForwards, ctxDone, cState, wState, nObserved, cur,
                 curSubsets, todo, emitted, doneChan, handLog, livePods, listVars>>

\* The pod addresses of an Endpoints object.
PodCount(subsets) == Len(SelectSeq(Addresses(subsets), IsPodRef))

\* The Get returned the service's Endpoints: the object the cluster holds then.
ResolveReturns(p) ==
  /\ spPc[p] = "resolve"
  /\ \E subsets \in EndpointSubsets(cur[p].Service.Namespace) :
       LET c == SendAll(FanOut(Info(cur[p].Service), PortsOf(cur[p].Service), subsets))
       IN  /\ curSubsets' = [curSubsets EXCEPT ![p] = subsets]
           /\ todo' = [todo EXCEPT ![p] = c.todo]
           /\ spPc' = [spPc EXCEPT ![p] = c.pc]
           /\ livePods' = PodCount(subsets)
  /\ UNCHANGED <<startVars, portForwards, ctxDone, cState, wState, nObserved, cur,
                 curErr, emitted, doneChan, handLog, listVars>>

\* The end of the loop body: back to the select.
Continue(p) ==
  /\ spPc[p] = "next"
  /\ spPc' = [spPc EXCEPT ![p] = "select"]
  /\ cur' = [cur EXCEPT ![p] = NoEvent]
  /\ curSubsets' = [curSubsets EXCEPT ![p] = <<>>]
  /\ curErr' = [curErr EXCEPT ![p] = ""]
  /\ emitted' = [emitted EXCEPT ![p] = <<>>]
  /\ UNCHANGED <<startVars, portForwards, ctxDone, cState, wState, nObserved, todo,
                 doneChan, handLog, livePods, listVars>>

\* case <-ctx.Done(): close(doneChan); return
Cancelled(p) ==
  /\ spPc[p] = "select"
  /\ ctxDone
  /\ doneChan' = "closed"
  /\ spPc' = [spPc EXCEPT ![p] = "exited"]
  /\ UNCHANGED <<startVars, portForwards, ctxDone, cState, wState, nObserved, cur,
                 curSubsets, curErr, todo, emitted, handLog, livePods, listVars>>

\* ------------------------------------------------- the port-forward worker

Entry(req) == [Endpoint |-> req.Endpoint, Status |-> StatusPending]

\* Apply(CreateIntent): append an entry under the identity.
ApplyCreate(pf, req) ==
  IF req.Service \in DOMAIN pf
    THEN [pf EXCEPT ![req.Service] = Append(@, Entry(req))]
    ELSE pf @@ (req.Service :> << Entry(req) >>)

\* Apply(DeleteIntent): remove all entries under the identity.
ApplyDelete(pf, req) == [k \in DOMAIN pf \ {req.Service} |-> pf[k]]

Apply(pf, req) == IF req.kind = "create" THEN ApplyCreate(pf, req) ELSE ApplyDelete(pf, req)

\* List is between its first and its last read of the table.
ListInLoop == listPc \in {"range", "make", "rangeEntries", "copy", "append"}

\* requester <- PortForwardRequest{...}: the rendezvous with the worker, which
\* applies the request to its table. List reads the table with no lock, so the
\* write falls between any two of its reads; a key inserted during its range
\* may or may not be produced.
Send(p) ==
  /\ spPc[p] = "send"
  /\ cState = "running"
  /\ LET req == Head(todo[p]) IN
       /\ portForwards' = Apply(portForwards, req)
       /\ emitted' = [emitted EXCEPT ![p] = Append(@, req)]
       /\ handLog' = Append(handLog, cur[p].seq)
       /\ listAbsent' = IF req.kind = "create" THEN listAbsent \ {req.Service}
                        ELSE listAbsent
       /\ listVisited' \in
            IF ListInLoop /\ req.kind = "create" /\ req.Service \notin DOMAIN portForwards
              THEN {listVisited, listVisited \cup {req.Service}}
              ELSE {listVisited}
  /\ todo' = [todo EXCEPT ![p] = Tail(@)]
  /\ spPc' = [spPc EXCEPT ![p] = IF Tail(todo[p]) = <<>> THEN "next" ELSE "send"]
  /\ UNCHANGED <<startVars, ctxDone, cState, wState, nObserved, cur, curSubsets, curErr,
                 doneChan, livePods, listPc, listServ, listConn, listM, listI,
                 listStatuses, listErr>>

\* The worker's loop ends on cancellation and closes its done channel.
WorkerStops ==
  /\ cState = "running"
  /\ ctxDone
  /\ cState' = "stopped"
  /\ UNCHANGED <<startVars, portForwards, ctxDone, pipeVars, handLog, livePods, listVars>>

\* ------------------------------------------------------------ Proxier.Start

\* Variant: the worker is stored before err is tested.
StartFailsAssigned ==
  /\ startPc = "idle"
  /\ startPc' = "returnedErr"
  /\ worker' = "worker"
  /\ UNCHANGED <<tableBuilt, portForwards, ctxDone, cState, pipeVars, handLog, livePods, listVars>>

\* NewPortForwarder returned an error: return err.
StartFails ==
  /\ startPc = "idle"
  /\ startPc' = "returnedErr"
  /\ UNCHANGED <<worker, tableBuilt, portForwards, ctxDone, cState, pipeVars,
                 handLog, livePods, listVars>>

\* NewPortForwarder built the worker, its table and its request loop.
StartConstructs ==
  /\ startPc = "idle"
  /\ startPc' = "constructed"
  /\ tableBuilt' = TRUE
  /\ cState' = "running"
  /\ UNCHANGED <<worker, portForwards, ctxDone, pipeVars, handLog, livePods, listVars>>

\* p.worker = worker
StartAssigns ==
  /\ startPc = "constructed"
  /\ worker' = "worker"
  /\ startPc' = "assigned"
  /\ UNCHANGED <<tableBuilt, portForwards, ctxDone, cState, pipeVars, handLog, livePods,
                 listVars>>

\* CreateHandlers: go serviceProcessor(...)
CreateHandlers ==
  /\ startPc = "assigned"
  /\ spPc' = [p \in Processors |-> "select"]
  /\ startPc' = "handlers"
  /\ UNCHANGED <<worker, tableBuilt, portForwards, ctxDone, cState, wState, nObserved,
                 cur, curSubsets, curErr, todo, emitted, doneChan, handLog, livePods, listVars>>

\* cache.NewInformer(...); go servInformer.Run(ctx.Done())
StartInformer ==
  /\ startPc = "handlers"
  /\ wState' = "running"
  /\ startPc' = "waitHandler"
  /\ UNCHANGED <<worker, tableBuilt, portForwards, ctxDone, cState, nObserved, spPc,
                 cur, curSubsets, curErr, todo, emitted, doneChan, handLog, livePods, listVars>>

\* Variant: Start does not wait for the handlers.
HandlerDoneAlways == TRUE

\* <-handlerDoneChan can proceed: a receive from a closed channel.
HandlerDone == doneChan = "closed"

\* <-handlerDoneChan
WaitHandler ==
  /\ startPc = "waitHandler"
  /\ HandlerDone
  /\ startPc' = "waitPf"
  /\ UNCHANGED <<worker, tableBuilt, portForwards, ctxDone, cState, pipeVars, handLog, livePods,
                 listVars>>

\* <-pfdoneChan; return nil
WaitPortForwarder ==
  /\ startPc = "waitPf"
  /\ cState = "stopped"
  /\ startPc' = "returnedNil"
  /\ UNCHANGED <<worker, tableBuilt, portForwards, ctxDone, cState, pipeVars, handLog, livePods,
                 listVars>>

\* The caller cancels ctx.
Cancel ==
  /\ ~ctxDone
  /\ ctxDone' = TRUE
  /\ UNCHANGED <<startVars, portForwards, cState, pipeVars, handLog, livePods, listVars>>

\* ------------------------------------------------------------- the informer

\* The informer calls AddFunc, which blocks in serviceChan <- ServiceEvent{...}.
AddFunc ==
  /\ wState = "running"
  /\ nObserved < MaxNotifications
  /\ wState' = "addFunc"
  /\ nObserved' = nObserved + 1
  /\ UNCHANGED <<startVars, portForwards, ctxDone, cState, spPc, cur, curSubsets, curErr,
                 todo, emitted, doneChan, handLog, livePods, listVars>>

\* The informer calls DeleteFunc, which blocks the same way.
DeleteFunc ==
  /\ wState = "running"
  /\ nObserved < MaxNotifications
  /\ wState' = "deleteFunc"
  /\ nObserved' = nObserved + 1
  /\ UNCHANGED <<startVars, portForwards, ctxDone, cState, spPc, cur, curSubsets, curErr,
                 todo, emitted, doneChan, handLog, livePods, listVars>>

\* servInformer.Run returns once its stop channel, ctx.Done(), is closed.
InformerStops ==
  /\ wState = "running"
  /\ ctxDone
  /\ wState' = "stopped"
  /\ UNCHANGED <<startVars, portForwards, ctxDone, cState, nObserved, spPc, cur,
                 curSubsets, curErr, todo, emitted, doneChan, handLog, livePods, listVars>>

\* The headless service has entries in the table.
HeadlessInTable == \E id \in DOMAIN portForwards : id.Type = ServiceTypeStatefulset

\* The cluster adds pods to the headless service or removes some: its Endpoints
\* object changes. Nothing watches Endpoints and the informer has no UpdateFunc,
\* so no goroutine takes a step. A change before the lookup shows in what the
\* lookup returns; the change is a step of its own once the table has entries.
EndpointsChange ==
  /\ HeadlessInTable
  /\ \E n \in 0..MaxAddresses : n # livePods /\ livePods' = n
  /\ UNCHANGED <<startVars, portForwards, ctxDone, cState, pipeVars, handLog, listVars>>

\* ------------------------------------------------------------- Proxier.List

\* Variant: List does not test p.worker.
WorkerIsNilNever == FALSE

\* if p.worker == nil { return nil, fmt.Errorf("proxier not running") }
WorkerIsNil == worker = "nil"

\* The call and its test of p.worker.
ListCall ==
  /\ listPc = "idle"
  /\ listAbsent' = Identities \ DOMAIN portForwards
  /\ listStatuses' = <<>>
  /\ listVisited' = {}
  /\ IF WorkerIsNil
       THEN /\ listErr' = ErrNotRunning
            /\ listPc' = "returned"
       ELSE /\ listErr' = ""
            /\ listPc' = IF tableBuilt THEN "range" ELSE "panicked"
  /\ UNCHANGED <<startVars, portForwards, ctxDone, cState, pipeVars, handLog, livePods,
                 listServ, listConn, listM, listI>>

\* Variant: the range also produces the identities that have no entry.
ListKeysWithAbsent == (DOMAIN portForwards \cup listAbsent) \ listVisited

\* The keys the range over p.worker.portForwards can still produce.
ListKeys == DOMAIN portForwards \ listVisited

\* for serv := range p.worker.portForwards: the next key.
ListNextKey ==
  /\ listPc = "range"
  /\ \E serv \in ListKeys :
       /\ listServ' = serv
       /\ listVisited' = listVisited \cup {serv}
  /\ listPc' = "make"
  /\ UNCHANGED <<startVars, portForwards, ctxDone, cState, pipeVars, handLog, livePods,
                 listConn, listM, listI, listStatuses, listErr, listAbsent>>

\* The range is exhausted: return statuses, nil.
ListReturns ==
  /\ listPc = "range"
  /\ ListKeys = {}
  /\ listPc' = "returned"
  /\ UNCHANGED <<startVars, portForwards, ctxDone, cState, pipeVars, handLog, livePods,
                 listVisited, listServ, listConn, listM, listI, listStatuses, listErr,
                 listAbsent>>

\* p.worker.portForwards[serv]: the nil slice when the key is absent.
EntriesOf(serv) == IF serv \in DOMAIN portForwards THEN portForwards[serv] ELSE <<>>

\* connStatuses := make([]PortForwardStatus, len(p.worker.portForwards[serv]))
ListMake ==
  /\ listPc = "make"
  /\ listConn' = [i \in 1..Len(EntriesOf(listServ)) |-> ZeroStatus]
  /\ listPc' = "rangeEntries"
  /\ UNCHANGED <<startVars, portForwards, ctxDone, cState, pipeVars, handLog, livePods,
                 listVisited, listServ, listM, listI, listStatuses, listErr,
                 listAbsent>>

\* for i := range p.worker.portForwards[serv]: the length is taken once.
ListRangeEntries ==
  /\ listPc = "rangeEntries"
  /\ listM' = Len(EntriesOf(listServ))
  /\ listI' = 1
  /\ listPc' = IF Len(EntriesOf(listServ)) = 0 THEN "append" ELSE "copy"
  /\ UNCHANGED <<startVars, portForwards, ctxDone, cState, pipeVars, handLog, livePods,
                 listVisited, listServ, listConn, listStatuses, listErr,
                 listAbsent>>

\* connStatuses[i] = p.worker.portForwards[serv][i].Status: both indexings are
\* bounds-checked, against the entry list as it is now and against connStatuses.
ListCopy ==
  /\ listPc = "copy"
  /\ IF listI > Len(EntriesOf(listServ)) \/ listI > Len(listConn)
       THEN /\ listPc' = "panicked"
            /\ UNCHANGED <<listConn, listI>>
       ELSE /\ listConn' = [listConn EXCEPT ![listI] = EntriesOf(listServ)[listI].Status]
            /\ listI' = listI + 1
            /\ listPc' = IF listI = listM THEN "append" ELSE "copy"
  /\ UNCHANGED <<startVars, portForwards, ctxDone, cState, pipeVars, handLog, livePods,
                 listVisited, listServ, listM, listStatuses, listErr,
                 listAbsent>>

\* statuses = append(statuses, ServiceStatus{ServiceInfo: serv, Statuses: connStatuses})
ListAppend ==
  /\ listPc = "append"
  /\ listStatuses' = Append(listStatuses, [ServiceInfo |-> listServ, Statuses |-> listConn])
  /\ listPc' = "range"
  /\ UNCHANGED <<startVars, portForwards, ctxDone, cState, pipeVars, handLog, livePods,
                 listVisited, listServ, listConn, listM, listI, listErr,
                 listAbsent>>

\* The caller has the result and may call again.
ListDone ==
  /\ listPc = "returned"
  /\ listPc' = "idle"
  /\ listStatuses' = <<>>
  /\ listErr' = ""
  /\ listVisited' = {}
  /\ listServ' = NoEvent
  /\ listConn' = <<>>
  /\ listM' = 0
  /\ listI' = 0
  /\ listAbsent' = {}
  /\ UNCHANGED <<startVars, portForwards, ctxDone, cState, pipeVars, handLog, livePods>>

\* ------------------------------------------------------------ specification

Next ==
  \/ StartFails
  \/ StartConstructs
  \/ StartAssigns
  \/ CreateHandlers
  \/ StartInformer
  \/ WaitHandler
  \/ WaitPortForwarder
  \/ Cancel
  \/ AddFunc
  \/ DeleteFunc
  \/ InformerStops
  \/ \E p \in Processors : Receive(p)
  \/ \E p \in Processors : ResolveFails(p)
  \/ \E p \in Processors : ResolveReturns(p)
  \/ \E p \in Processors : Send(p)
  \/ \E p \in Processors : Continue(p)
  \/ \E p \in Processors : Cancelled(p)
  \/ WorkerStops
  \/ EndpointsChange
  \/ ListCall
  \/ ListNextKey
  \/ ListReturns
  \/ ListMake
  \/ ListRangeEntries
  \/ ListCopy
  \/ ListAppend
  \/ ListDone

Spec == Init /\ [][Next]_vars

\* The steps of Start, the informer, the processor and the worker: all but List's
\* and the cluster's.
PipelineNext ==
  \/ StartFails
  \/ StartConstructs
  \/ StartAssigns
  \/ CreateHandlers
  \/ StartInformer
  \/ WaitHandler
  \/ WaitPortForwarder
  \/ Cancel
  \/ AddFunc
  \/ DeleteFunc
  \/ InformerStops
  \/ \E p \in Processors : Receive(p)
  \/ \E p \in Processors : ResolveFails(p)
  \/ \E p \in Processors : ResolveReturns(p)
  \/ \E p \in Processors : Send(p)
  \/ \E p \in Processors : Continue(p)
  \/ \E p \in Processors : Cancelled(p)
  \/ WorkerStops

\* The steps of a Start that succeeds and is not cancelled, with the informer
\* and the processor it starts.
ClassifierNext ==
  \/ StartConstructs
  \/ StartAssigns
  \/ CreateHandlers
  \/ StartInformer
  \/ AddFunc
  \/ DeleteFunc
  \/ \E p \in Processors : Receive(p)
  \/ \E p \in Processors : ResolveFails(p)
  \/ \E p \in Processors : ResolveReturns(p)
  \/ \E p \in Processors : Send(p)
  \/ \E p \in Processors : Continue(p)

\* The runs with no cancellation and no call of List: neither changes what the
\* processor does with an event it has received.
ClassifierSpec == Init /\ [][ClassifierNext]_vars

\* ------------------------------------------------------------------ claims

\* The event of processor p is fully processed: its loop body has ended.
Processed(p) == spPc[p] = "next"

AddedOrdinary(ev) ==
  /\ ev.EventType = EventAdded
  /\ ev.Service.ClusterIP # "None"
  /\ ev.Service.Name # "kubernetes"

AddedHeadless(ev) ==
  /\ ev.EventType = EventAdded
  /\ ev.Service.ClusterIP = "None"
  /\ ev.Service.Name # "kubernetes"

\* The five aliases of a root r in namespace ns, the first alias given apart.
Aliases(first, r, ns) ==
  << first,
     r \o "." \o ns,
     r \o "." \o ns \o ".svc",
     r \o "." \o ns \o ".svc.cluster",
     r \o "." \o ns \o ".svc.cluster.local" >>

\* C1: an Added notification of an ordinary, non-reserved service yields exactly
\* one create request: the service's identity with the standard type, its ports
\* in declaration order, no endpoint, and the five aliases name, name.ns,
\* name.ns.svc, name.ns.svc.cluster, name.ns.svc.cluster.local in that order.
C1_OrdinaryAddOneCreate ==
  \A p \in Processors :
    (Processed(p) /\ AddedOrdinary(cur[p])) =>
      LET svc == cur[p].Service IN
      emitted[p] =
        << [kind |-> "create",
            Service |-> [Name |-> svc.Name, Namespace |-> svc.Namespace, Type |-> ""],
            Ports |-> svc.Ports,
            Endpoint |-> NoEndpoint,
            Hostnames |-> Aliases(svc.Name, svc.Name, svc.Namespace)] >>

\* The scenario of the specification: web/default at 10.0.0.1 with ports 443, 80.
C1_Witness ==
  \E p \in Processors :
    /\ Processed(p)
    /\ cur[p].EventType = EventAdded
    /\ cur[p].Service = [Name |-> "web", Namespace |-> "default",
                         ClusterIP |-> "10.0.0.1", Ports |-> <<443, 80>>]
    /\ Len(emitted[p]) = 1
    /\ emitted[p][1].Ports = <<443, 80>>
    /\ emitted[p][1].Hostnames =
         <<"web", "web.default", "web.default.svc", "web.default.svc.cluster",
           "web.default.svc.cluster.local">>

\* The addresses resolved for the event of p, and whether each is a pod's.
Resolved(p) == Addresses(curSubsets[p])
AllPods(refs) == \A i \in 1..Len(refs) : refs[i] # NilRef /\ refs[i].Kind = "Pod"

\* One create request per resolved address, in order, each with the address's
\* pod as endpoint and the aliases FirstAlias and root give for it.
OnePerEndpoint(p, FirstAlias(_, _), Root(_, _)) ==
  LET svc == cur[p].Service
      refs == Resolved(p)
  IN  /\ Len(emitted[p]) = Len(refs)
      /\ \A i \in 1..Len(refs) :
           emitted[p][i] =
             [kind |-> "create",
              Service |-> [Name |-> svc.Name, Namespace |-> svc.Namespace,
                           Type |-> "statefulset"],
              Ports |-> svc.Ports,
              Endpoint |-> [Name |-> refs[i].Name, Namespace |-> refs[i].Namespace],
              Hostnames |-> Aliases(FirstAlias(refs[i].Name, svc.Name),
                                    Root(refs[i].Name, svc.Name), svc.Namespace)]

PodDotService(pod, service) == pod \o "." \o service
ServiceAlone(pod, service) == service

HeadlessResolvedAllPods(p) ==
  /\ Processed(p)
  /\ AddedHeadless(cur[p])
  /\ curErr[p] = ""
  /\ AllPods(Resolved(p))

\* C2 as stated: an Added notification of a headless service whose lookup
\* returns K pod addresses yields K create requests, one per endpoint, whose
\* five aliases are all rooted at <pod>.<service>, the first being <pod>.<service>.
C2_AllAliasesPodRooted ==
  \A p \in Processors :
    HeadlessResolvedAllPods(p) => OnePerEndpoint(p, PodDotService, PodDotService)

\* C2 amended: the same K create requests, one per endpoint in address order,
\* whose first alias is the bare service name and whose other four aliases are
\* <pod>.<service>.<ns> and its .svc, .svc.cluster and .svc.cluster.local forms.
C2_FanOutOnePerEndpoint ==
  \A p \in Processors :
    HeadlessResolvedAllPods(p) => OnePerEndpoint(p, ServiceAlone, PodDotService)

\* Two pods resolved, two requests handed over.
C2_Witness ==
  \E p \in Processors :
    /\ HeadlessResolvedAllPods(p)
    /\ Len(emitted[p]) = 2
    /\ emitted[p][1].Endpoint = [Name |-> "pod-1", Namespace |-> "default"]
    /\ emitted[p][2].Endpoint = [Name |-> "pod-0", Namespace |-> "default"]
    /\ emitted[p][2].Hostnames =
         <<"web", "pod-0.web.default", "pod-0.web.default.svc",
           "pod-0.web.default.svc.cluster", "pod-0.web.default.svc.cluster.local">>

\* C3: a Deleted notification of a non-reserved service yields exactly one
\* delete request for its identity and no create request, whatever the
\* service's topology and however many entries the table holds for it.
C3_DeleteOneRequest ==
  \A p \in Processors :
    (Processed(p) /\ cur[p].EventType = EventDeleted
       /\ cur[p].Service.Name # "kubernetes") =>
      LET svc == cur[p].Service IN
      emitted[p] =
        << [kind |-> "delete",
            Service |-> [Name |-> svc.Name, Namespace |-> svc.Namespace,
                         Type |-> IF svc.ClusterIP = "None" THEN "statefulset" ELSE ""]] >>

\* A headless service deleted after its Added notification fanned out to two
\* entries: the first notification handed over two requests, the second one.
C3_Witness ==
  \E p \in Processors :
    /\ Processed(p)
    /\ cur[p].EventType = EventDeleted
    /\ cur[p].Service.Name = "web"
    /\ cur[p].Service.ClusterIP = "None"
    /\ handLog = <<1, 1, 2>>
    /\ Len(emitted[p]) = 1
    /\ Info(cur[p].Service) \notin DOMAIN portForwards

\* C4: a notification whose service is named "kubernetes" yields no request,
\* whatever its namespace, topology and event kind: nothing is ever handed over
\* for it, and the processor is at the end of its loop body, ready for the next
\* notification.
C4_ReservedNameNoIntent ==
  \A p \in Processors :
    (cur[p] # NoEvent /\ cur[p].Service.Name = "kubernetes") =>
      /\ emitted[p] = <<>>
      /\ todo[p] = <<>>
      /\ spPc[p] = "next"
      /\ \A i \in 1..Len(handLog) : handLog[i] # cur[p].seq

\* The reserved name outside the default namespace, headless, deleted.
C4_Witness ==
  \E p \in Processors :
    /\ Processed(p)
    /\ cur[p].EventType = EventDeleted
    /\ cur[p].Service.Name = "kubernetes"
    /\ cur[p].Service.Namespace = "ns"
    /\ cur[p].Service.ClusterIP = "None"
    /\ cur[p].seq = 2
    /\ Len(handLog) > 0

\* C5 as stated: a List running while requests are applied never sees a torn
\* table: it does not fail on an index that the entry list or connStatuses no
\* longer has, and every status of every list it returns was copied from an
\* entry, none left as make() created it.
C5_ListNeverTorn ==
  /\ listPc # "panicked"
  /\ listPc = "returned" =>
       \A i \in 1..Len(listStatuses) :
         \A j \in 1..Len(listStatuses[i].Statuses) :
           listStatuses[i].Statuses[j] # ZeroStatus

\* C6: once a delete request for an identity has been applied, the table holds
\* nothing under it, and a List called while the table holds nothing under an
\* identity, with no create request for it applied since the call, reports no
\* element for the identity.
C6_NoEntryAfterDelete ==
  /\ \A p \in Processors :
       (Processed(p) /\ cur[p].EventType = EventDeleted /\ emitted[p] # <<>>) =>
         emitted[p][1].Service \notin DOMAIN portForwards
  /\ \A i \in 1..Len(listStatuses) : listStatuses[i].ServiceInfo \notin listAbsent

\* A List returned after the delete of an identity that had two entries.
C6_Witness ==
  /\ listPc = "returned"
  /\ listErr = ""
  /\ handLog = <<1, 1, 2>>
  /\ [Name |-> "web", Namespace |-> "default", Type |-> "statefulset"] \in listAbsent
  /\ \E p \in Processors :
       /\ Processed(p)
       /\ emitted[p] = << [kind |-> "delete",
                           Service |-> [Name |-> "web", Namespace |-> "default",
                                        Type |-> "statefulset"]] >>
  /\ listStatuses = <<>>

\* Start has run all its setup statements.
SetupDone == {"waitHandler", "waitPf", "returnedNil"}

\* C7: a List whose test of p.worker comes before the table is constructed
\* (before Start, during it, or after a Start that failed) returns the "not
\* running" error and no result, and no List panics before the table exists;
\* a List called once Start's setup is done passes the test, and returns
\* without error when it returns.
C7_ListBeforeSetupNotRunning ==
  /\ [][(listPc = "idle" /\ listPc' # "idle") =>
          /\ ~tableBuilt =>
               listPc' = "returned" /\ listErr' = "proxier not running"
                 /\ listStatuses' = <<>>
          /\ startPc \in SetupDone => listPc' = "range" /\ listErr' = ""]_vars
  /\ [](listPc = "panicked" => tableBuilt)
  /\ [](listErr # "" => listPc = "returned" /\ listStatuses = <<>>)

\* List returned "not running" after a Start that failed in construction.
C7_Witness ==
  /\ startPc = "returnedErr"
  /\ listPc = "returned"
  /\ listErr = "proxier not running"
  /\ listStatuses = <<>>

\* C8: one processor handles one notification at a time, so the requests reach
\* the worker in the order of their notifications: every request of an earlier
\* notification is handed over before any request of a later one.
C8_IntentsInNotificationOrder ==
  /\ \A i, j \in 1..Len(handLog) : i < j => handLog[i] <= handLog[j]
  /\ Cardinality({p \in Processors : cur[p] # NoEvent}) <= 1
  /\ \A p \in Processors : cur[p] # NoEvent => cur[p].seq \in {nObserved - 1, nObserved}

\* The two creates of a headless service, then its delete.
C8_Witness ==
  /\ handLog = <<1, 1, 2>>
  /\ \E p \in Processors :
       /\ Processed(p)
       /\ cur[p].seq = 2
       /\ emitted[p][1].kind = "delete"
       /\ emitted[p][1].Service.Type = "statefulset"

\* C9 as stated: after cancellation while Start is waiting, the system is never
\* stuck short of Stopped: as long as Start has not returned, some step of
\* Start, the informer, the processor or the worker can still be taken.
C9_CancelReachesStopped ==
  (ctxDone /\ startPc \in {"waitHandler", "waitPf"}) => ENABLED PipelineNext

C11_FailedStartStartsNothing ==
  startPc = "returnedErr" =>
    /\ \A p \in Processors :
         spPc[p] = "none" /\ cur[p] = NoEvent /\ todo[p] = <<>> /\ emitted[p] = <<>>
    /\ wState = "off"
    /\ nObserved = 0
    /\ handLog = <<>>
    /\ portForwards = EmptyTable
    /\ cState = "none"
    /\ ~tableBuilt
    /\ worker = "nil"
    /\ doneChan = "open"

\* Start has failed and the caller has cancelled the context since.
C11_Witness ==
  /\ startPc = "returnedErr"
  /\ ctxDone
  /\ worker = "nil"
  /\ \A p \in Processors : spPc[p] = "none"

\* The processor is between two notifications: no fan-out is under way.
BetweenNotifications == \A p \in Processors : spPc[p] \in {"select", "exited"}

\* C12 as stated, read between notifications only: every identity of the table
\* has exactly one entry if its type is standard, and as many entries as the
\* service's Endpoints object has pod addresses if its type is statefulset.
C12_TableLengthMatchesEndpoints ==
  BetweenNotifications =>
    \A id \in DOMAIN portForwards :
      Len(portForwards[id]) = IF id.Type = ServiceTypeStatefulset THEN livePods ELSE 1

\* C13 as stated: once ctx is cancelled, a processor at its select receives no
\* notification, also when one is offered at that moment: its next step is the
\* ctx.Done() case, which closes the done channel and returns.
C13_NoReceiveAfterCancel ==
  [][\A p \in Processors :
       (ctxDone /\ spPc[p] = "select" /\ spPc'[p] # "select") =>
         (spPc'[p] = "exited" /\ cur'[p] = NoEvent /\ doneChan' = "closed")]_vars

\* C14 as stated: a processor that is in the endpoint lookup of a headless Added
\* notification when ctx is cancelled, or enters it afterwards, reaches no send
\* of a create request when the lookup returns: it goes to the end of the loop
\* body with nothing to send.
C14_CancelObservedAroundResolve ==
  [][\A p \in Processors :
       (ctxDone /\ spPc[p] = "resolve" /\ spPc'[p] # "resolve") =>
         (spPc'[p] = "next" /\ todo'[p] = <<>>)]_vars

\* The requests an event yields, given what its endpoint lookup returned.
ExpectedRequests(ev, subsets, err) ==
  LET info == Info(ev.Service) IN
  IF info.Name = "kubernetes" THEN <<>>
  ELSE IF ev.EventType = EventDeleted THEN << DeleteRequest(info) >>
  ELSE IF ev.Service.ClusterIP # "None" THEN StandardRequests(info, PortsOf(ev.Service))
  ELSE IF err # "" THEN <<>>
  ELSE FanOut(info, PortsOf(ev.Service), subsets)

\* C15: when the endpoint lookup of a headless Added notification fails, no
\* request is handed over or left to send for the notification and the
\* processor is at the end of its loop body, able to go back to its select; at
\* the select it holds nothing of the notifications before, so the requests of
\* every notification, also one that follows a failure, are those its event and
\* its own lookup give.
C15_ResolveFailureDropsFanOut ==
  \A p \in Processors :
    /\ (cur[p] # NoEvent /\ curErr[p] = "error") =>
         /\ AddedHeadless(cur[p])
         /\ spPc[p] = "next"
         /\ ENABLED Continue(p)
         /\ emitted[p] = <<>> /\ todo[p] = <<>> /\ curSubsets[p] = <<>>
         /\ \A i \in 1..Len(handLog) : handLog[i] # cur[p].seq
    /\ spPc[p] = "select" =>
         /\ cur[p] = NoEvent /\ curErr[p] = "" /\ curSubsets[p] = <<>>
         /\ todo[p] = <<>> /\ emitted[p] = <<>>
    /\ Processed(p) => emitted[p] = ExpectedRequests(cur[p], curSubsets[p], curErr[p])

\* The lookup of the first notification failed; the informer is offering the
\* second, which the processor is about to go back and receive.
C15_Witness ==
  \E p \in Processors :
    /\ Processed(p)
    /\ AddedHeadless(cur[p])
    /\ curErr[p] = "error"
    /\ cur[p].seq = 1
    /\ emitted[p] = <<>>
    /\ nObserved = 2
    /\ wState = "deleteFunc"

\* The informer is blocked handing over the notification it raised last.
InformerBlocked == wState \in {"addFunc", "deleteFunc"}

\* The steps a processor can take.
ProcessorStep(p) ==
  \/ Receive(p) \/ ResolveFails(p) \/ ResolveReturns(p) \/ Send(p)
  \/ Continue(p) \/ Cancelled(p)

\* C16: the hand-overs are synchronous. A processor at its select has nothing
\* left to send, and every request it has got past was applied by the worker;
\* the notification the informer is blocked on is held by no processor, and
\* every earlier one was received: at most one notification and one request are
\* offered at a time. When the worker accepts no more, a processor at a send
\* cannot take any step, and the informer, once blocked in a handler, cannot
\* either: it raises no further notification.
C16_Backpressure ==
  /\ \A p \in Processors : spPc[p] = "select" => todo[p] = <<>>
  /\ \A p \in Processors :
       cur[p] # NoEvent =>
         /\ Len(emitted[p]) = Len(SelectSeq(handLog, LAMBDA n : n = cur[p].seq))
         /\ cur[p].seq = nObserved - (IF InformerBlocked THEN 1 ELSE 0)
  /\ Cardinality({p \in Processors : spPc[p] = "send"}) <= 1
  /\ InformerBlocked => ~ENABLED (AddFunc \/ DeleteFunc \/ InformerStops)
  /\ \A p \in Processors :
       (spPc[p] = "send" /\ cState # "running") =>
         /\ ~ENABLED ProcessorStep(p)
         /\ todo[p] # <<>>

\* The worker has stopped with a request of the first notification still to
\* send; the informer is blocked on the second.
C16_Witness ==
  \E p \in Processors :
    /\ spPc[p] = "send"
    /\ cState = "stopped"
    /\ cur[p].seq = 1
    /\ Len(emitted[p]) = 1
    /\ Len(todo[p]) = 1
    /\ wState = "addFunc"
    /\ nObserved = 2

\* A headless Added notification whose lookup returned, fully processed.
HeadlessResolved(p) ==
  /\ Processed(p)
  /\ AddedHeadless(cur[p])
  /\ curErr[p] = ""

\* The endpoints of the create requests handed over for the event of p.
EmittedEndpoints(p) == [i \in 1..Len(emitted[p]) |-> emitted[p][i].Endpoint]

\* C17: in the fan-out of a headless Added notification the requests handed
\* over are creates, as many as there are addresses, over all subsets, whose
\* TargetRef is a Pod, and their endpoints are those pods in address order: an
\* address with no TargetRef or one of another kind yields none and takes none
\* away from the addresses after it.
C17_OnlyPodAddressesFanOut ==
  \A p \in Processors :
    HeadlessResolved(p) =>
      LET refs == Resolved(p)
          pods == SelectSeq(refs, LAMBDA r : r # NilRef /\ r.Kind = "Pod")
      IN  /\ Len(emitted[p]) =
               Cardinality({i \in 1..Len(refs) : refs[i] # NilRef /\ refs[i].Kind = "Pod"})
          /\ \A i \in 1..Len(emitted[p]) : emitted[p][i].kind = "create"
          /\ EmittedEndpoints(p) =
               [i \in 1..Len(pods) |-> [Name |-> pods[i].Name, Namespace |-> pods[i].Namespace]]

\* A subset whose only address is a Node's, then a subset with a pod: one
\* request, for the pod.
C17_Witness ==
  \E p \in Processors :
    /\ HeadlessResolved(p)
    /\ curSubsets[p] =
         << << [Kind |-> "Node", Name |-> "node-a", Namespace |-> "default"] >>,
            << [Kind |-> "Pod", Name |-> "pod-1", Namespace |-> "default"] >> >>
    /\ EmittedEndpoints(p) = << [Name |-> "pod-1", Namespace |-> "default"] >>

\* No subset lists an address of the same object twice.
SubsetsDistinctWithin(subsets) ==
  \A k \in 1..Len(subsets) :
    \A i, j \in 1..Len(subsets[k]) : subsets[k][i] = subsets[k][j] => i = j

\* C18 as stated: no two create requests handed over for one Added
\* notification carry the same endpoint, also when the Endpoints object lists a
\* pod in more than one of its subsets (each subset listing it once).
C18_NoDuplicateEndpointTargets ==
  \A p \in Processors :
    (cur[p] # NoEvent /\ cur[p].EventType = EventAdded
       /\ SubsetsDistinctWithin(curSubsets[p])) =>
      \A i, j \in 1..Len(emitted[p]) :
        emitted[p][i].Endpoint = emitted[p][j].Endpoint => i = j

\* C19: the Type of every request of a notification, handed over or still to
\* send, is statefulset when the service's ClusterIP is exactly "None" and ""
\* otherwise, also for a ClusterIP that is not set; an Added notification of
\* a service of the other kind never reaches the endpoint lookup and has one
\* create request in all.
C19_TopologyIffNone ==
  \A p \in Processors :
    cur[p] # NoEvent =>
      LET svc == cur[p].Service
          reqs == emitted[p] \o todo[p]
      IN  /\ \A i \in 1..Len(reqs) :
               /\ reqs[i].Service.Type = "statefulset" <=> svc.ClusterIP = "None"
               /\ reqs[i].Service.Type = "" <=> svc.ClusterIP # "None"
          /\ AddedOrdinary(cur[p]) =>
               /\ spPc[p] \in {"send", "next"}
               /\ curSubsets[p] = <<>> /\ curErr[p] = ""
               /\ Len(reqs) = 1
               /\ reqs[1].kind = "create" /\ reqs[1].Endpoint = NoEndpoint
          /\ spPc[p] = "resolve" => (AddedHeadless(cur[p]) /\ svc.ClusterIP = "None")

\* A service with no ClusterIP set, added: one create of the standard type.
C19_Witness ==
  \E p \in Processors :
    /\ Processed(p)
    /\ cur[p].EventType = EventAdded
    /\ cur[p].Service.Name = "web"
    /\ cur[p].Service.ClusterIP = ""
    /\ Len(emitted[p]) = 1
    /\ emitted[p][1].Service = [Name |-> "web", Namespace |-> "default", Type |-> ""]
    /\ emitted[p][1].Endpoint = NoEndpoint

\* The key a service is filed under: the service has the key's name and
\* namespace, and is headless exactly if the key's type is statefulset.
KeyOf(id, svc) ==
  /\ id.Name = svc.Name
  /\ id.Namespace = svc.Namespace
  /\ id.Type = "statefulset" <=> svc.ClusterIP = "None"

\* C20: the identity is built the same way for both kinds of notification.
\* Every key of the table, which only a create request puts there, is the
\* identity a create request carries for the services filed under it; the
\* delete request of a Deleted notification about to be handed over carries
\* exactly the key the table has for the service with that name, namespace and
\* the same ClusterIP kind, and once it is handed over no such key is left.
C20_DeleteAddressesCreateKey ==
  /\ \A id \in DOMAIN portForwards :
       /\ id.Type \in {"", "statefulset"}
       /\ \A i \in 1..Len(portForwards[id]) :
            portForwards[id][i].Endpoint = NoEndpoint <=> id.Type = ""
  /\ \A p \in Processors :
       (cur[p] # NoEvent /\ cur[p].Service.Name # "kubernetes") =>
         LET svc == cur[p].Service
             reqs == emitted[p] \o todo[p]
         IN  /\ \A i \in 1..Len(reqs) : KeyOf(reqs[i].Service, svc)
             /\ (cur[p].EventType = EventDeleted /\ spPc[p] = "send") =>
                  \A id \in DOMAIN portForwards :
                    KeyOf(id, svc) => Head(todo[p]).Service = id
             /\ (cur[p].EventType = EventDeleted /\ Processed(p)) =>
                  \A id \in DOMAIN portForwards : ~KeyOf(id, svc)

\* The Deleted notification of a headless service is about to hand over its
\* request while the table holds two entries under the service's key.
C20_Witness ==
  \E p \in Processors :
    /\ spPc[p] = "send"
    /\ cur[p].EventType = EventDeleted
    /\ cur[p].Service.ClusterIP = "None"
    /\ handLog = <<1, 1>>
    /\ Head(todo[p]).Service \in DOMAIN portForwards
    /\ Len(portForwards[Head(todo[p]).Service]) = 2

====
